---- MODULE Spec2Model ----
(***************************************************************************)
(* A model of umake/tools.py: the shell-profile environment block manager  *)
(* (add_env_to_user / remove_framework_envs_from_user), the as_root        *)
(* privilege switch behind root_lock, add_foreign_arch and the distro-id   *)
(* cache of get_current_distro_ids.                                        *)
(*                                                                         *)
(* Text is a sequence of tokens.  "\n" and "#" are single characters; every *)
(* other token stands for a fixed string that holds neither of them, so a  *)
(* substring search over tokens finds what the search over characters      *)
(* finds.  Indices are Python's (0-based), find returns -1 when there is   *)
(* no match.                                                               *)
(***************************************************************************)
EXTENDS Integers, Sequences, FiniteSets, TLC

VARIABLES
    fs,          \* path -> [exists, data]: the files of the home directory
    environ,     \* os.environ: variable name -> value ("" when unset)
    hist,        \* the completed profile calls, each with the state before it
    rpc,         \* remove_framework_envs_from_user, step by step: position
    rtag,        \*   its framework_tag
    rcontent,    \*   its local variable content
    rpre,        \*   the profile as it was when the call began
    iters,       \*   iterations of its while loop so far
    observed,    \* what a concurrent reader of the profile path last read
    root_lock,   \* the thread holding root_lock, or NoThread
    pc,          \* thread -> position in an as_root block
    euid,        \* effective uid of the process
    egid,        \* effective gid of the process
    can_root,    \* whether seteuid(0) is permitted (started through sudo/su)
    sudo_env,    \* SUDO_GID and SUDO_UID: "ok", or which of them int() rejects
    _current_arch, \* cache of dpkg --print-architecture, or None
    _foreign_arch, \* cache of dpkg --print-foreign-architectures, or None
    dpkg_arch,     \* the architecture dpkg prints
    dpkg_foreign,  \* the foreign architectures dpkg has enabled
    arch_call,     \* the last add_foreign_arch call and its outcome
    _ids,          \* cache of get_current_distro_ids, or None
    os_release,    \* the os-release file: [exists, lines]
    ids_read,      \* the contents of os-release at the successful reads so far
    ids_call       \* the last get_current_distro_ids call and its outcome

profVars == <<fs, environ, hist>>
rmVars == <<rpc, rtag, rcontent, rpre, iters, observed>>
rootVars == <<root_lock, pc, euid, egid, can_root, sudo_env>>
archVars == <<_current_arch, _foreign_arch, dpkg_arch, dpkg_foreign, arch_call>>
idsVars == <<_ids, os_release, ids_read, ids_call>>
vars == <<profVars, rmVars, rootVars, archVars, idsVars>>

-----------------------------------------------------------------------------
(* Bounds *)

\* How many add/remove calls a run of the profile manager makes.
MaxOps == 3

-----------------------------------------------------------------------------
(* Python's str operations, on token sequences *)

Min(a, b) == IF a < b THEN a ELSE b

\* s[i:]
From(s, i) == SubSeq(s, Min(i, Len(s)) + 1, Len(s))

\* s[:i]
Upto(s, i) == SubSeq(s, 1, Min(i, Len(s)))

\* s[i:i+len(sub)] == sub
IsAt(s, sub, i) == i + Len(sub) <= Len(s) /\ SubSeq(s, i + 1, i + Len(sub)) = sub

\* the places where sub occurs in s
Occurrences(s, sub) == {i \in 0..(Len(s) - Len(sub)) : IsAt(s, sub, i)}

\* s.find(sub)
Find(s, sub) ==
    LET occ == Occurrences(s, sub)
    IN IF occ = {} THEN -1 ELSE CHOOSE i \in occ : \A j \in occ : i <= j

\* sub in s
Contains(s, sub) == Find(s, sub) # -1

-----------------------------------------------------------------------------
(* The profile file and its blocks *)

NL == "\n"
pathsep == ":"
BlankLine == <<NL, NL>>

\* profile_tag.format(framework_tag)
profile_tag(framework_tag) ==
    <<"#", " Ubuntu make installation of ">> \o framework_tag \o <<NL>>

\* _get_shell_profile_file_path() with SHELL unset or a bash: ~/.profile
ProfilePath == <<"~", ".profile">>

\* A variant of NewPath: the content is written to the profile path itself.
SamePath(profile_filepath) == profile_filepath

\* profile_filepath + ".new"
NewPath(profile_filepath) == profile_filepath \o <<".new">>

Paths == {ProfilePath, NewPath(ProfilePath)}

NoFile == [exists |-> FALSE, data |-> <<>>]
File(data) == [exists |-> TRUE, data |-> data]

\* A variant of RemoveIter: the blank line is looked for from the start of the
\* content, not from the header.
RemoveIterFromStart(content, framework_header) ==
    LET framework_start_index == Find(content, framework_header)
        framework_end_index == Find(content, BlankLine)
    IN Upto(content, framework_start_index)
         \o From(content, framework_start_index + framework_end_index + Len(BlankLine))

\* A variant of RemoveIter: the last blank line after the header ends the block
\* (rfind for find).
RemoveIterGreedy(content, framework_header) ==
    LET framework_start_index == Find(content, framework_header)
        occ == Occurrences(From(content, framework_start_index), BlankLine)
        framework_end_index ==
            IF occ = {} THEN -1 ELSE CHOOSE i \in occ : \A j \in occ : j <= i
    IN Upto(content, framework_start_index)
         \o From(content, framework_start_index + framework_end_index + Len(BlankLine))

\* A variant of RemoveIter: the cut ends len("\n") after the place of the blank
\* line, not len("\n\n").
RemoveIterOneNewline(content, framework_header) ==
    LET framework_start_index == Find(content, framework_header)
        framework_end_index == Find(From(content, framework_start_index), BlankLine)
    IN Upto(content, framework_start_index)
         \o From(content, framework_start_index + framework_end_index + Len(<<NL>>))

\* One iteration of the while loop of remove_framework_envs_from_user.
RemoveIter(content, framework_header) ==
    LET framework_start_index == Find(content, framework_header)
        framework_end_index == Find(From(content, framework_start_index), BlankLine)
    IN Upto(content, framework_start_index)
         \o From(content, framework_start_index + framework_end_index + Len(BlankLine))

\* while framework_header in content: ...
RECURSIVE RemoveLoop(_, _)
RemoveLoop(content, framework_header) ==
    IF Contains(content, framework_header)
    THEN RemoveLoop(RemoveIter(content, framework_header), framework_header)
    ELSE content

\* A variant of RemoveFromFiles: nothing is removed.
RemoveNothing(files, framework_tag) == files

\* remove_framework_envs_from_user as a function of the files: the content without
\* the tag's blocks goes to the .new file, which is renamed over the profile.
RemoveFromFiles(files, framework_tag) ==
    LET f == files[ProfilePath]
        framework_header == profile_tag(framework_tag)
    IN IF ~f.exists THEN files
       ELSE IF ~Contains(f.data, framework_header) THEN files
       ELSE [files EXCEPT ![ProfilePath] = File(RemoveLoop(f.data, framework_header)),
                          ![NewPath(ProfilePath)] = NoFile]

\* os.pathsep.join(value)
RECURSIVE Join(_)
Join(parts) ==
    IF parts = <<>> THEN <<>>
    ELSE IF Len(parts) = 1 THEN parts[1]
    ELSE parts[1] \o <<pathsep>> \o Join(Tail(parts))

\* value = env_dict[env]["value"], joined when it is a list
ValueOf(entry) == IF entry.is_list THEN Join(entry.value) ELSE entry.value

\* env_dict[env].get("keep", True)
KeepOf(entry) == IF entry.keep = "unset" THEN TRUE ELSE entry.keep = "true"

\* A variant of KeepReference: the "$" is missing.
KeepReferenceNoDollar(value, env) == value \o <<pathsep, env>>

\* "{}{}${}".format(value, os.pathsep, env)
KeepReference(value, env) == value \o <<pathsep, "$", env>>

\* The for loop over env_dict from entry i on: the environment and envs_to_insert
\* it ends with.
RECURSIVE EnvLoop(_, _, _, _)
EnvLoop(env_dict, i, env, envs_to_insert) ==
    IF i > Len(env_dict) THEN [environ |-> env, envs_to_insert |-> envs_to_insert]
    ELSE LET e == env_dict[i]
             value == ValueOf(e)
         IN IF KeepOf(e) /\ env[e.name] # <<>>
            THEN EnvLoop(env_dict, i + 1,
                         [env EXCEPT ![e.name] = value \o <<pathsep>> \o env[e.name]],
                         Append(envs_to_insert,
                                [name |-> e.name, value |-> KeepReference(value, e.name)]))
            ELSE EnvLoop(env_dict, i + 1,
                         [env EXCEPT ![e.name] = value],
                         Append(envs_to_insert, [name |-> e.name, value |-> value]))

\* "{}{}={}\n".format(export, env, value)
EnvLine(env, value) ==
    (IF env # "PATH" THEN <<"export ">> ELSE <<>>) \o <<env, "=">> \o value \o <<NL>>

RECURSIVE EnvLines(_)
EnvLines(envs_to_insert) ==
    IF envs_to_insert = <<>> THEN <<>>
    ELSE EnvLine(envs_to_insert[1].name, envs_to_insert[1].value)
           \o EnvLines(Tail(envs_to_insert))

\* A variant of Block: the final f.write("\n") is missing.
BlockNoBlankLine(framework_tag, envs_to_insert) ==
    profile_tag(framework_tag) \o EnvLines(envs_to_insert)

\* What add_env_to_user appends: the header, a line for each variable, a blank line.
Block(framework_tag, envs_to_insert) ==
    profile_tag(framework_tag) \o EnvLines(envs_to_insert) \o <<NL>>

\* open(profile_filepath, "a") and the writes
AppendToFiles(files, text) ==
    [files EXCEPT ![ProfilePath] = File(files[ProfilePath].data \o text)]

\* add_env_to_user as a function of the files and the environment.
AddResult(files, env, framework_tag, env_dict) ==
    LET removed == RemoveFromFiles(files, framework_tag)
        looped == EnvLoop(env_dict, 1, env, <<>>)
    IN [fs |-> AppendToFiles(removed, Block(framework_tag, looped.envs_to_insert)),
        environ |-> looped.environ]

-----------------------------------------------------------------------------
(* Inputs of the profile manager *)

\* two tags, one a prefix of the other
Tags == {<<"go">>, <<"go", "lang">>}

EnvNames == {"FOO", "PATH"}

Entry(name, is_list, value, keep) ==
    [name |-> name, is_list |-> is_list, value |-> value, keep |-> keep]

\* env_dict, in insertion order
EnvDicts ==
    { <<>>,
      <<Entry("FOO", FALSE, <<"new">>, "true")>>,
      <<Entry("PATH", TRUE, <<(<<"/a">>), (<<"/b">>)>>, "unset")>>,
      <<Entry("FOO", FALSE, <<>>, "unset"), Entry("PATH", FALSE, <<"/a">>, "false")>> }

GoHeader == profile_tag(<<"go">>)
GolangHeader == profile_tag(<<"go", "lang">>)

\* The profile before the first call: absent, empty, plain text with and without a
\* final newline, a block in place, headers that an edit left without their blank
\* line, and a header line cut short.
InitialProfiles ==
    { NoFile,
      File(<<>>),
      File(<<"alias">>),
      File(<<"alias", NL>>),
      File(<<"alias", NL, NL, "umask">>),
      File(GoHeader \o <<"export ", "FOO", "=", "new", NL, NL>>),
      File(<<"alias">> \o GoHeader \o <<NL, "umask", NL>>),
      File(GoHeader \o <<"alias", NL>>),
      File(GolangHeader \o <<"alias", NL>>),
      File(<<"alias", NL, "#", " Ubuntu make installation of ", "go">>),
      File(<<"#", " Ubuntu make installation of ", "go", "lang">> \o GoHeader \o <<NL, NL>>) }

InitialEnvirons ==
    { [n \in EnvNames |-> IF n = "PATH" THEN <<"/usr/bin">> ELSE <<>>],
      [n \in EnvNames |-> IF n = "PATH" THEN <<"/usr/bin">> ELSE <<"old">>] }

-----------------------------------------------------------------------------
(* The states in which a part of the program is not running *)

NoThread == "none"
None == [set |-> FALSE, value |-> <<>>]
Some(v) == [set |-> TRUE, value |-> v]
Threads == {"t1", "t2"}

RmIdle ==
    /\ rpc = "idle" /\ rtag = <<>> /\ rcontent = <<>> /\ rpre = NoFile
    /\ iters = 0 /\ observed = NoFile

\* the uid of root, and the uid and gid SUDO_UID and SUDO_GID name
RootUid == 0
UserUid == 1000

RootIdle ==
    /\ root_lock = NoThread /\ pc = [t \in Threads |-> [at |-> "idle", exc |-> FALSE]]
    /\ euid = UserUid /\ egid = UserUid /\ can_root = TRUE /\ sudo_env = "ok"

ArchIdle ==
    /\ _current_arch = None /\ _foreign_arch = None
    /\ dpkg_arch = "amd64" /\ dpkg_foreign = <<>>
    /\ arch_call = [new_arch |-> "", outcome |-> "none", loaded_before |-> FALSE]

IdsIdle ==
    /\ _ids = None /\ os_release = [exists |-> FALSE, lines |-> <<>>]
    /\ ids_read = {} /\ ids_call = [outcome |-> "none", value |-> <<>>]

-----------------------------------------------------------------------------
(* The profile manager: add_env_to_user and remove_framework_envs_from_user, *)
(* one call after another                                                    *)

InitOps ==
    /\ \E f \in InitialProfiles :
          fs = [p \in Paths |-> IF p = ProfilePath THEN f ELSE NoFile]
    /\ environ \in InitialEnvirons
    /\ hist = <<>>
    /\ RmIdle /\ RootIdle /\ ArchIdle /\ IdsIdle

Call(op, framework_tag, env_dict) ==
    [op |-> op, tag |-> framework_tag, env_dict |-> env_dict,
     profile |-> fs[ProfilePath], environ |-> environ]

remove_framework_envs_from_user(framework_tag) ==
    /\ Len(hist) < MaxOps
    /\ fs' = RemoveFromFiles(fs, framework_tag)
    /\ hist' = Append(hist, Call("remove", framework_tag, <<>>))
    /\ UNCHANGED <<environ, rmVars, rootVars, archVars, idsVars>>

add_env_to_user(framework_tag, env_dict) ==
    /\ Len(hist) < MaxOps
    /\ LET r == AddResult(fs, environ, framework_tag, env_dict)
       IN fs' = r.fs /\ environ' = r.environ
    /\ hist' = Append(hist, Call("add", framework_tag, env_dict))
    /\ UNCHANGED <<rmVars, rootVars, archVars, idsVars>>

NextOps ==
    \/ \E t \in Tags : remove_framework_envs_from_user(t)
    \/ \E t \in Tags, d \in EnvDicts : add_env_to_user(t, d)

SpecOps == InitOps /\ [][NextOps]_vars

-----------------------------------------------------------------------------
(* Claims about the profile manager, checked under SpecOps *)

Profile == fs[ProfilePath]
N == Len(hist)

\* the profile before the first call
InitialProfile == IF hist = <<>> THEN Profile ELSE hist[1].profile

HeaderCount(content, framework_tag) ==
    Cardinality(Occurrences(content, profile_tag(framework_tag)))

\* The last two calls were the same add(T, S).
AddedTwice ==
    /\ N >= 2
    /\ hist[N].op = "add" /\ hist[N - 1].op = "add"
    /\ hist[N].tag = hist[N - 1].tag
    /\ hist[N].env_dict = hist[N - 1].env_dict

\* Every kept variable of env_dict with a non-empty new value has a non-empty value
\* in env.
KeptAlreadySet(env_dict, env) ==
    \A i \in 1..Len(env_dict) :
        (KeepOf(env_dict[i]) /\ ValueOf(env_dict[i]) # <<>>) => env[env_dict[i].name] # <<>>

\* C1 as claimed: after add(T, S) twice in a row the file holds exactly one block
\* for T and is byte-identical to the file after the first add(T, S).
C1_IdempotentAsClaimed ==
    AddedTwice =>
        /\ HeaderCount(Profile.data, hist[N].tag) = 1
        /\ Profile.data = hist[N].profile.data

\* C1 amended: after add(T, S) twice in a row the file holds exactly one block for
\* T; it is byte-identical to the file after the first add(T, S) exactly when every
\* kept variable of S with a non-empty new value already had a non-empty value in
\* the process environment before the first call (the first call sets the others,
\* so the second call writes them as NAME=new:$NAME where the first wrote NAME=new).
C1_Idempotent ==
    AddedTwice =>
        /\ HeaderCount(Profile.data, hist[N].tag) = 1
        /\ Profile.exists
        /\ (Profile.data = hist[N].profile.data)
             <=> KeptAlreadySet(hist[N].env_dict, hist[N - 1].environ)

\* C1 witness: FOO=old was in the environment, {FOO: new, keep} was added twice over
\* a profile that already held a block of the tag, and the second add left the file
\* of the first.
C1_Witness ==
    /\ AddedTwice
    /\ hist[N].env_dict = <<Entry("FOO", FALSE, <<"new">>, "true")>>
    /\ hist[N - 1].environ["FOO"] = <<"old">>
    /\ Contains(hist[N - 1].profile.data, profile_tag(hist[N].tag))
    /\ Profile.data = hist[N].profile.data
    /\ Contains(Profile.data, <<"export ", "FOO", "=", "new", pathsep, "$", "FOO", NL>>)

\* The last two calls were add(T, S) and then remove(T).
AddedThenRemoved ==
    /\ N >= 2
    /\ hist[N].op = "remove" /\ hist[N - 1].op = "add"
    /\ hist[N].tag = hist[N - 1].tag

\* C2 as claimed: add(T, S) then remove(T) restores the content the profile had
\* before the add, whatever it was (an absent file counting as an empty one).
C2_RoundTripAsClaimed ==
    AddedThenRemoved => Profile.data = hist[N - 1].profile.data

\* C2 amended: when the profile before the add does not contain T's header line,
\* add(T, S) then remove(T) restores its content exactly (absent, empty, or not
\* ending in a newline); a profile that was absent is left as an empty file.
C2_RoundTrip ==
    (AddedThenRemoved
       /\ ~Contains(hist[N - 1].profile.data, profile_tag(hist[N].tag)))
    => /\ Profile.data = hist[N - 1].profile.data
       /\ Profile.exists

\* C2 witness: a block with a variable line was added to a profile that did not end
\* in a newline, then removed, and the profile is as before.
C2_Witness ==
    /\ AddedThenRemoved
    /\ hist[N - 1].profile = File(<<"alias">>)
    /\ hist[N - 1].env_dict # <<>>
    /\ Contains(hist[N].profile.data, profile_tag(hist[N].tag))
    /\ Profile = File(<<"alias">>)

\* The last three calls were add(T1, S1), add(T2, S2), remove(T1), T1 # T2.
TwoAddedOneRemoved ==
    /\ N >= 3
    /\ hist[N - 2].op = "add" /\ hist[N - 1].op = "add" /\ hist[N].op = "remove"
    /\ hist[N - 2].tag # hist[N - 1].tag
    /\ hist[N].tag = hist[N - 2].tag

\* the block a recorded add call wrote
BlockOf(call) ==
    Block(call.tag, EnvLoop(call.env_dict, 1, call.environ, <<>>).envs_to_insert)

\* The two adds left the profile of before, then T1's block, then T2's block, and
\* the remove left the profile of before, then T2's block.
TwoBlocksThenOne ==
    /\ hist[N].profile.data =
         hist[N - 2].profile.data \o BlockOf(hist[N - 2]) \o BlockOf(hist[N - 1])
    /\ Profile.data = hist[N - 2].profile.data \o BlockOf(hist[N - 1])

\* After the two adds the file ends with T1's block and then T2's block, and the
\* remove deleted T1's block and nothing else.
BlocksInOrderThenOne ==
    LET both == BlockOf(hist[N - 2]) \o BlockOf(hist[N - 1])
        after_adds == hist[N].profile.data
        other == Upto(after_adds, Len(after_adds) - Len(both))
    IN /\ Len(after_adds) >= Len(both)
       /\ after_adds = other \o both
       /\ Profile.data = other \o BlockOf(hist[N - 1])

\* A remove changes the file exactly when the header line built from its tag is a
\* substring of the content.
ExactSubstringMatch ==
    (N >= 1 /\ hist[N].op = "remove") =>
        (Profile # hist[N].profile
           <=> (hist[N].profile.exists
                /\ Contains(hist[N].profile.data, profile_tag(hist[N].tag))))

\* C3 as claimed: for distinct tags, add(T1, S1) then add(T2, S2) produces the two
\* blocks in call order, and remove(T1) then deletes T1's block only; a remove
\* acts exactly when the tag's header line is a substring of the file.
C3_ExclusiveAsClaimed ==
    /\ TwoAddedOneRemoved => BlocksInOrderThenOne
    /\ ExactSubstringMatch

\* C3 amended: the same, for a profile that contains neither tag's header line
\* before the first add (a header of T2 that has lost its blank line makes
\* add(T2, S2) delete up to the end of T1's block).
C3_Exclusive ==
    /\ (TwoAddedOneRemoved
          /\ ~Contains(hist[N - 2].profile.data, profile_tag(hist[N - 2].tag))
          /\ ~Contains(hist[N - 2].profile.data, profile_tag(hist[N - 1].tag)))
       => TwoBlocksThenOne
    /\ ExactSubstringMatch

\* C3 witness: two blocks with variable lines were added after user text and the
\* first was removed.
C3_Witness ==
    /\ TwoAddedOneRemoved
    /\ hist[N - 2].profile = File(<<"alias", NL, NL, "umask">>)
    /\ hist[N - 2].env_dict # <<>> /\ hist[N - 1].env_dict # <<>>
    /\ HeaderCount(hist[N].profile.data, hist[N - 2].tag) = 1
    /\ HeaderCount(hist[N].profile.data, hist[N - 1].tag) = 1
    /\ HeaderCount(Profile.data, hist[N - 2].tag) = 0
    /\ HeaderCount(Profile.data, hist[N - 1].tag) = 1

\* no header line of any tag
NoManagedBlocks(content) == \A t \in Tags : ~Contains(content, profile_tag(t))

\* the places of all header lines
HeaderPlaces(content) == UNION {Occurrences(content, profile_tag(t)) : t \in Tags}

\* The header at place i starts a block: a blank line ends it, and no other header
\* line starts before that blank line is over.
BlockAt(content, i) ==
    LET end == Find(From(content, i), BlankLine)
    IN /\ end # -1
       /\ \A j \in HeaderPlaces(content) : j <= i \/ j >= i + end + Len(BlankLine)

\* C4: from a profile with no managed blocks, after any sequence of completed add
\* and remove calls the file holds at most one block per framework tag, and every
\* block is contiguous and terminated by a blank line.
C4_ProfileInvariant ==
    NoManagedBlocks(InitialProfile.data) =>
        /\ \A t \in Tags : HeaderCount(Profile.data, t) <= 1
        /\ \A i \in HeaderPlaces(Profile.data) : BlockAt(Profile.data, i)

\* C4 witness: from a profile with no managed blocks a tag was added, added again,
\* and the other tag was added: one block of each.
C4_Witness ==
    /\ NoManagedBlocks(InitialProfile.data)
    /\ N >= 3
    /\ hist[1].op = "add" /\ hist[2].op = "add" /\ hist[3].op = "add"
    /\ hist[1].tag = hist[2].tag /\ hist[3].tag # hist[1].tag
    /\ \A t \in Tags : HeaderCount(Profile.data, t) = 1

\* C6: for every variable of the env spec whose keep flag is true or unspecified
\* and whose value in the process environment at call time is a non-empty string
\* old, add_env_to_user sets the variable to new + pathsep + old and writes the
\* line NAME=new + pathsep + $NAME (with "export " in front unless NAME is PATH).
C6_KeepMerge ==
    (N >= 1 /\ hist[N].op = "add") =>
        \A i \in 1..Len(hist[N].env_dict) :
            LET e == hist[N].env_dict[i]
                new == IF e.is_list THEN Join(e.value) ELSE e.value
                old == hist[N].environ[e.name]
                export == IF e.name = "PATH" THEN <<>> ELSE <<"export ">>
            IN (e.keep # "false" /\ old # <<>>) =>
                 /\ environ[e.name] = new \o <<pathsep>> \o old
                 /\ Contains(From(Profile.data, Find(Profile.data, profile_tag(hist[N].tag))),
                             <<NL>> \o export \o <<e.name, "=">> \o new
                               \o <<pathsep, "$", e.name, NL>>)

\* C6 witness: with FOO=old in the environment, {FOO: {value: new, keep: true}} was
\* added: FOO is new:old and the line is export FOO=new:$FOO.
C6_Witness ==
    /\ N >= 1 /\ hist[N].op = "add"
    /\ hist[N].env_dict = <<Entry("FOO", FALSE, <<"new">>, "true")>>
    /\ hist[N].environ["FOO"] = <<"old">>
    /\ environ["FOO"] = <<"new", pathsep, "old">>
    /\ Contains(Profile.data, <<"export ", "FOO", "=", "new", pathsep, "$", "FOO", NL>>)

-----------------------------------------------------------------------------
(* remove_framework_envs_from_user step by step, beside a reader of the profile *)

\* Profiles a call may find, the malformed ones included: a header with nothing
\* after it, two headers without a blank line, a block followed by a truncated
\* one, and a removal that brings the two halves of a header together.
RemoveProfiles ==
    InitialProfiles \cup
    { File(<<"alias", NL>> \o GoHeader),
      File(GoHeader \o GoHeader),
      File(GoHeader \o <<"export ", "FOO", "=", "new", NL, NL>> \o <<"umask", NL>>
             \o GoHeader \o <<"alias">>),
      File(<<"#">> \o GoHeader \o <<NL>> \o <<" Ubuntu make installation of ", "go", NL>>),
      File(<<"alias", NL>> \o GolangHeader \o <<"PATH", "=", "/a", NL, NL>>
             \o GoHeader \o <<NL>>) }

\* a .new file that an interrupted run left behind, or none
LeftoverNewFiles == {NoFile, File(<<"alias">>)}

InitRemove ==
    /\ \E f \in RemoveProfiles, g \in LeftoverNewFiles :
          /\ fs = [p \in Paths |-> IF p = ProfilePath THEN f ELSE g]
          /\ observed = f
    /\ environ = [n \in EnvNames |-> <<>>]
    /\ hist = <<>>
    /\ rpc = "idle" /\ rtag = <<>> /\ rcontent = <<>> /\ rpre = NoFile /\ iters = 0
    /\ RootIdle /\ ArchIdle /\ IdsIdle

RmUnchanged == UNCHANGED <<environ, hist, rootVars, archVars, idsVars>>

\* the call: profile_filepath, content = "", framework_header
RmCall(framework_tag) ==
    /\ rpc = "idle"
    /\ rpc' = "read"
    /\ rtag' = framework_tag
    /\ rpre' = fs[ProfilePath]
    /\ rcontent' = <<>>
    /\ UNCHANGED <<fs, iters, observed>>
    /\ RmUnchanged

\* try: content = f.read()  except FileNotFoundError: return
RmRead ==
    /\ rpc = "read"
    /\ IF fs[ProfilePath].exists
       THEN rcontent' = fs[ProfilePath].data /\ rpc' = "check"
       ELSE rcontent' = rcontent /\ rpc' = "done"
    /\ UNCHANGED <<fs, rtag, rpre, iters, observed>>
    /\ RmUnchanged

\* if framework_header not in content: return
RmCheck ==
    /\ rpc = "check"
    /\ rpc' = IF Contains(rcontent, profile_tag(rtag)) THEN "loop" ELSE "done"
    /\ UNCHANGED <<fs, rtag, rcontent, rpre, iters, observed>>
    /\ RmUnchanged

\* while framework_header in content: one iteration, or the exit
RmLoop ==
    /\ rpc = "loop"
    /\ IF Contains(rcontent, profile_tag(rtag))
       THEN /\ rcontent' = RemoveIter(rcontent, profile_tag(rtag))
            /\ iters' = iters + 1
            /\ rpc' = rpc
       ELSE /\ rpc' = "open"
            /\ UNCHANGED <<rcontent, iters>>
    /\ UNCHANGED <<fs, rtag, rpre, observed>>
    /\ RmUnchanged

\* open(profile_filepath + ".new", "w"): the file is created or truncated
RmOpen ==
    /\ rpc = "open"
    /\ fs' = [fs EXCEPT ![NewPath(ProfilePath)] = File(<<>>)]
    /\ rpc' = "write"
    /\ UNCHANGED <<rtag, rcontent, rpre, iters, observed>>
    /\ RmUnchanged

\* f.write(content): the buffer reaches the file a piece at a time
RmFlush ==
    /\ rpc = "write"
    /\ Len(fs[NewPath(ProfilePath)].data) < Len(rcontent)
    /\ fs' = [fs EXCEPT ![NewPath(ProfilePath)] =
                File(Upto(rcontent, Len(fs[NewPath(ProfilePath)].data) + 1))]
    /\ UNCHANGED <<rpc, rtag, rcontent, rpre, iters, observed>>
    /\ RmUnchanged

\* the end of the with block: what is left of the buffer is written, the file closed
RmClose ==
    /\ rpc = "write"
    /\ fs' = [fs EXCEPT ![NewPath(ProfilePath)] = File(rcontent)]
    /\ rpc' = "rename"
    /\ UNCHANGED <<rtag, rcontent, rpre, iters, observed>>
    /\ RmUnchanged

\* os.rename(profile_filepath + ".new", profile_filepath)
RmRename ==
    /\ rpc = "rename"
    /\ fs' = [p \in Paths |-> IF p = ProfilePath THEN fs[NewPath(ProfilePath)] ELSE NoFile]
    /\ rpc' = "done"
    /\ UNCHANGED <<rtag, rcontent, rpre, iters, observed>>
    /\ RmUnchanged

\* a shell that starts reads the profile path
ReadProfile ==
    /\ rpc # "idle"
    /\ observed' = fs[ProfilePath]
    /\ UNCHANGED <<fs, rpc, rtag, rcontent, rpre, iters>>
    /\ RmUnchanged

NextRemove ==
    \/ \E t \in Tags : RmCall(t)
    \/ RmRead
    \/ RmCheck
    \/ RmLoop
    \/ RmOpen
    \/ RmFlush
    \/ RmClose
    \/ RmRename
    \/ ReadProfile

SpecRemove == InitRemove /\ [][NextRemove]_vars

\* the profile a complete call leaves
PostRemove ==
    IF rpre.exists /\ Contains(rpre.data, profile_tag(rtag))
    THEN File(RemoveLoop(rpre.data, profile_tag(rtag)))
    ELSE rpre

\* C5: at every point of a remove_framework_envs_from_user call the profile path
\* holds, and a concurrent reader observes, either the complete pre-remove content
\* or the complete post-remove content; the new content is complete in the .new
\* file before the rename, and only the rename changes the profile path.
C5_AtomicReplace ==
    rpc # "idle" =>
        /\ fs[ProfilePath] \in {rpre, PostRemove}
        /\ observed \in {rpre, PostRemove}
        /\ rpc = "rename" => fs[NewPath(ProfilePath)] = PostRemove
        /\ rpc \in {"read", "check", "loop", "open", "write", "rename"}
             => fs[ProfilePath] = rpre

\* C5 witness: the reader read the profile while the .new file was half written and
\* saw the old content; the new content is different and not empty.
C5_Witness ==
    /\ rpc = "write"
    /\ fs[NewPath(ProfilePath)].data # rcontent
    /\ fs[NewPath(ProfilePath)].data # <<>>
    /\ rcontent # <<>>
    /\ observed = rpre
    /\ PostRemove # rpre

\* the call is at or past its while loop
InOrPastLoop == rpc \in {"loop", "open", "write", "rename", "done"}

\* C8: the while loop terminates on any content, a header with no blank line after
\* it included: every iteration strictly shortens the content, so there are never
\* more iterations than the content was long; and the content written back does
\* not contain the tag's header line.
C8_RemovalTerminates ==
    /\ InOrPastLoop => iters + Len(rcontent) <= Len(rpre.data)
    /\ rpc \in {"open", "write", "rename"} => ~Contains(rcontent, profile_tag(rtag))
    /\ (rpc = "done" /\ iters > 0) =>
          ~Contains(fs[ProfilePath].data, profile_tag(rtag))

\* C8 witness: the profile held a header of the tag with no blank line anywhere
\* after it; the loop ran and ended, and the profile was written back.
C8_Witness ==
    /\ rpc = "done"
    /\ iters >= 2
    /\ \E i \in Occurrences(rpre.data, profile_tag(rtag)) :
          Find(From(rpre.data, i), BlankLine) = -1
    /\ fs[ProfilePath] = File(rcontent)

-----------------------------------------------------------------------------
(* as_root: the privilege switch behind root_lock, two threads *)

InitRoot ==
    /\ root_lock = NoThread
    /\ pc = [t \in Threads |-> [at |-> "idle", exc |-> FALSE]]
    /\ can_root \in BOOLEAN
    /\ sudo_env \in {"ok", "bad_gid", "bad_uid"}
    /\ euid \in (IF can_root THEN {RootUid, UserUid} ELSE {UserUid})
    /\ egid = euid
    /\ fs = [p \in Paths |-> NoFile] /\ environ = [n \in EnvNames |-> <<>>]
    /\ hist = <<>>
    /\ RmIdle /\ ArchIdle /\ IdsIdle

RootUnchanged == UNCHANGED <<profVars, rmVars, archVars, idsVars, can_root, sudo_env>>

At(t, at, exc) == pc' = [pc EXCEPT ![t] = [at |-> at, exc |-> exc]]

\* with as_root(): a thread comes to the block
EnterAsRoot(t) ==
    /\ pc[t].at = "idle"
    /\ At(t, "acquire", FALSE)
    /\ UNCHANGED <<root_lock, euid, egid>>
    /\ RootUnchanged

\* root_lock.acquire(): blocks while another thread holds the lock
Acquire(t) ==
    /\ pc[t].at = "acquire"
    /\ root_lock = NoThread
    /\ root_lock' = t
    /\ At(t, "seteuid", FALSE)
    /\ UNCHANGED <<euid, egid>>
    /\ RootUnchanged

\* os.seteuid(0): PermissionError unless the process may become root
SetEuidRoot(t) ==
    /\ pc[t].at = "seteuid"
    /\ IF can_root
       THEN euid' = RootUid /\ At(t, "setegid", FALSE)
       ELSE euid' = euid /\ At(t, "finally", TRUE)
    /\ UNCHANGED <<root_lock, egid>>
    /\ RootUnchanged

\* os.setegid(0)
SetEgidRoot(t) ==
    /\ pc[t].at = "setegid"
    /\ egid' = RootUid
    /\ At(t, "body", FALSE)
    /\ UNCHANGED <<root_lock, euid>>
    /\ RootUnchanged

\* yield: the body of the with block ends, or raises (as add_foreign_arch does
\* when dpkg fails)
Body(t) ==
    /\ pc[t].at = "body"
    /\ \E raises \in BOOLEAN : At(t, "finally", raises)
    /\ UNCHANGED <<root_lock, euid, egid>>
    /\ RootUnchanged

\* finally: switch_to_current_user().  int() of a malformed SUDO_GID or SUDO_UID
\* raises, and the exception leaves as_root before root_lock.release().
switch_to_current_user(t) ==
    /\ pc[t].at = "finally"
    /\ IF euid # RootUid
       THEN /\ At(t, "release", pc[t].exc)
            /\ UNCHANGED <<euid, egid>>
       ELSE IF sudo_env = "bad_gid"
       THEN /\ At(t, "left", TRUE)
            /\ UNCHANGED <<euid, egid>>
       ELSE IF sudo_env = "bad_uid"
       THEN /\ egid' = UserUid
            /\ At(t, "left", TRUE)
            /\ UNCHANGED euid
       ELSE /\ egid' = UserUid
            /\ euid' = UserUid
            /\ At(t, "release", pc[t].exc)
    /\ UNCHANGED root_lock
    /\ RootUnchanged

\* root_lock.release()
Release(t) ==
    /\ pc[t].at = "release"
    /\ root_lock' = NoThread
    /\ At(t, "left", pc[t].exc)
    /\ UNCHANGED <<euid, egid>>
    /\ RootUnchanged

\* the thread goes on with its work after the block (or after its exception)
Leave(t) ==
    /\ pc[t].at = "left"
    /\ At(t, "idle", FALSE)
    /\ UNCHANGED <<root_lock, euid, egid>>
    /\ RootUnchanged

NextRoot ==
    \E t \in Threads :
        \/ EnterAsRoot(t)
        \/ Acquire(t)
        \/ SetEuidRoot(t)
        \/ SetEgidRoot(t)
        \/ Body(t)
        \/ switch_to_current_user(t)
        \/ Release(t)
        \/ Leave(t)

SpecRoot == InitRoot /\ [][NextRoot]_vars

\* the thread is between root_lock.acquire() and root_lock.release()
InsideAsRoot(t) == pc[t].at \in {"seteuid", "setegid", "body", "finally", "release"}

\* C9 as claimed: no two threads are inside an as_root block at once, and on every
\* exit path (normal, an exception of the body, a failure of seteuid(0)/setegid(0),
\* a failure inside switch_to_current_user) a thread that has left the block no
\* longer holds root_lock.
C9_LockGivenBack ==
    /\ \A t, u \in Threads : (InsideAsRoot(t) /\ InsideAsRoot(u)) => t = u
    /\ \A t \in Threads : pc[t].at \in {"left", "idle", "acquire"} => root_lock # t

-----------------------------------------------------------------------------
(* add_foreign_arch and the architecture caches *)

Archs == {"amd64", "i386", "armhf", "arm64"}

\* x in list
InList(x, list) == \E i \in 1..Len(list) : list[i] = x

InitArch ==
    /\ dpkg_arch \in {"amd64", "i386"}
    /\ dpkg_foreign \in {<<>>, <<"i386">>, <<"armhf", "arm64">>}
    /\ ~InList(dpkg_arch, dpkg_foreign)
    /\ _current_arch = None /\ _foreign_arch = None
    /\ arch_call = [new_arch |-> "", outcome |-> "none", loaded_before |-> FALSE]
    /\ fs = [p \in Paths |-> NoFile] /\ environ = [n \in EnvNames |-> <<>>]
    /\ hist = <<>>
    /\ RmIdle /\ RootIdle /\ IdsIdle

ArchUnchanged == UNCHANGED <<profVars, rmVars, rootVars, idsVars, dpkg_arch>>

\* get_current_arch(): the cache, filled from dpkg --print-architecture
get_current_arch ==
    /\ _current_arch' = IF _current_arch.set THEN _current_arch ELSE Some(dpkg_arch)
    /\ UNCHANGED <<_foreign_arch, dpkg_foreign, arch_call>>
    /\ ArchUnchanged

\* get_foreign_archs(): the cache, filled from dpkg --print-foreign-architectures
get_foreign_archs ==
    /\ _foreign_arch' = IF _foreign_arch.set THEN _foreign_arch ELSE Some(dpkg_foreign)
    /\ UNCHANGED <<_current_arch, dpkg_foreign, arch_call>>
    /\ ArchUnchanged

\* add_foreign_arch(new_arch).  dpkg --add-architecture goes well or fails; the last
\* three statements are outside the if, so they run whenever nothing was raised.
add_foreign_arch(new_arch) ==
    LET foreign == IF _foreign_arch.set THEN _foreign_arch.value ELSE dpkg_foreign
        current == IF _current_arch.set THEN _current_arch.value ELSE dpkg_arch
        loaded == InList(new_arch, dpkg_foreign) \/ new_arch = dpkg_arch
        returns(value) == arch_call' = [new_arch |-> new_arch, outcome |-> value,
                                        loaded_before |-> loaded]
    IN /\ IF ~InList(new_arch, foreign)
          THEN /\ _current_arch' = Some(current)
               /\ IF new_arch # current
                  THEN \E dpkg_ok \in BOOLEAN :
                         IF dpkg_ok
                         THEN /\ dpkg_foreign' = Append(dpkg_foreign, new_arch)
                              /\ _foreign_arch' = None
                              /\ returns("True")
                         ELSE /\ dpkg_foreign' = dpkg_foreign
                              /\ _foreign_arch' = Some(foreign)
                              /\ returns("raised")
                  ELSE /\ dpkg_foreign' = dpkg_foreign
                       /\ _foreign_arch' = None
                       /\ returns("True")
          ELSE /\ UNCHANGED <<_current_arch, dpkg_foreign>>
               /\ _foreign_arch' = None
               /\ returns("True")
       /\ ArchUnchanged

NextArch ==
    \/ get_current_arch
    \/ get_foreign_archs
    \/ \E a \in Archs : add_foreign_arch(a)

SpecArch == InitArch /\ [][NextArch]_vars

\* C7 as claimed: add_foreign_arch(new_arch) returns True only when new_arch was
\* neither the current architecture nor among the enabled foreign architectures
\* before the call and dpkg has added it; it does not return True for an
\* architecture that was already loaded.
C7_ReturnsWhetherAdded ==
    arch_call.outcome = "True" =>
        /\ ~arch_call.loaded_before
        /\ InList(arch_call.new_arch, dpkg_foreign)

-----------------------------------------------------------------------------
(* get_current_distro_ids and its cache *)

\* How many lines an os-release file of the model has at most.
MaxLines == 2

OsReleaseLines ==
    { <<"ID", "=", "ubuntu", NL>>,
      <<" ", "ID_LIKE", "=", "debian", " ", NL>>,
      <<"VERSION_ID", "=", "22.04", NL>>,
      <<"NAME", "=", "ID", "=", "x", NL>> }

RECURSIVE SeqsUpTo(_, _)
SeqsUpTo(S, n) ==
    IF n = 0 THEN {<<>>}
    ELSE LET shorter == SeqsUpTo(S, n - 1)
         IN shorter \cup {Append(q, x) : q \in shorter, x \in S}

OsReleaseFiles ==
    {[exists |-> FALSE, lines |-> <<>>]}
      \cup {[exists |-> TRUE, lines |-> l] : l \in SeqsUpTo(OsReleaseLines, MaxLines)}

Whitespace == {" ", NL}

\* line.strip()
RECURSIVE Strip(_)
Strip(line) ==
    IF line = <<>> THEN line
    ELSE IF Head(line) \in Whitespace THEN Strip(Tail(line))
    ELSE IF line[Len(line)] \in Whitespace THEN Strip(SubSeq(line, 1, Len(line) - 1))
    ELSE line

\* line.startswith(prefix)
StartsWith(line, prefix) == IsAt(line, prefix, 0)

\* line.split('=')[1]: what stands between the first '=' and the next one
SplitSecond(line) ==
    LET rest == From(line, Find(line, <<"=">>) + 1)
        next == Find(rest, <<"=">>)
    IN IF next = -1 THEN rest ELSE Upto(rest, next)

\* the body of the for loop, for one line
IdsOfLine(line) ==
    LET l == Strip(line)
    IN (IF StartsWith(l, <<"ID", "=">>) THEN <<SplitSecond(l)>> ELSE <<>>)
         \o (IF StartsWith(l, <<"ID_LIKE", "=">>) THEN <<SplitSecond(l)>> ELSE <<>>)

\* the for loop over the lines of the file
RECURSIVE IdsOfLines(_)
IdsOfLines(lines) ==
    IF lines = <<>> THEN <<>>
    ELSE IdsOfLine(Head(lines)) \o IdsOfLines(Tail(lines))

InitIds ==
    /\ _ids = None
    /\ os_release \in OsReleaseFiles
    /\ ids_read = {}
    /\ ids_call = [outcome |-> "none", value |-> <<>>]
    /\ fs = [p \in Paths |-> NoFile] /\ environ = [n \in EnvNames |-> <<>>]
    /\ hist = <<>>
    /\ RmIdle /\ RootIdle /\ ArchIdle

IdsUnchanged == UNCHANGED <<profVars, rmVars, rootVars, archVars>>

\* get_current_distro_ids().  _ids becomes [] before the file is opened; the open
\* fails, or the file is read to its end, or an IOError ends the read after k lines.
get_current_distro_ids ==
    /\ IF _ids.set
       THEN /\ ids_call' = [outcome |-> "returned", value |-> _ids.value]
            /\ UNCHANGED <<_ids, ids_read>>
       ELSE IF ~os_release.exists
       THEN /\ _ids' = Some(<<>>)
            /\ ids_call' = [outcome |-> "raised", value |-> <<>>]
            /\ UNCHANGED ids_read
       ELSE \/ /\ _ids' = Some(IdsOfLines(os_release.lines))
               /\ ids_read' = ids_read \cup {os_release.lines}
               /\ ids_call' = [outcome |-> "returned", value |-> IdsOfLines(os_release.lines)]
            \/ \E k \in 0..(Len(os_release.lines) - 1) :
                  /\ _ids' = Some(IdsOfLines(Upto(os_release.lines, k)))
                  /\ ids_call' = [outcome |-> "raised", value |-> <<>>]
                  /\ UNCHANGED ids_read
    /\ UNCHANGED os_release
    /\ IdsUnchanged

\* the os-release file appears, changes or goes away
ChangeOsRelease(file) ==
    /\ os_release # file
    /\ os_release' = file
    /\ UNCHANGED <<_ids, ids_read, ids_call>>
    /\ IdsUnchanged

NextIds ==
    \/ get_current_distro_ids
    \/ \E file \in OsReleaseFiles : ChangeOsRelease(file)

SpecIds == InitIds /\ [][NextIds]_vars

\* the values a stripped line ID=... or ID_LIKE=... gives
IdValueOf(line) ==
    LET l == Strip(line)
    IN IF l # <<>> /\ l[1] \in {"ID", "ID_LIKE"} /\ Len(l) >= 2 /\ l[2] = "="
       THEN <<SplitSecond(l)>> ELSE <<>>

RECURSIVE IdValues(_)
IdValues(lines) ==
    IF lines = <<>> THEN <<>> ELSE IdValueOf(Head(lines)) \o IdValues(Tail(lines))

\* C10 as claimed: a call returns a list only if this or an earlier call opened and
\* read the os-release file, and the list is the ID= and ID_LIKE= values of the
\* file that was read; a call that failed leaves no cached value for a later call
\* to return.
C10_CacheHoldsReadFacts ==
    ids_call.outcome = "returned" =>
        \E lines \in ids_read : ids_call.value = IdValues(lines)

====
